---- MODULE Spec2Model ----
(***************************************************************************)
(* Storage-container lifecycle scripts of cloud-resources-as-code:         *)
(*   src/aws/02-storage/02-bucket-python.py          (S3 buckets)          *)
(*   src/gcp/02-storage/02-python-bucket.py          (GCS buckets)         *)
(*   src/azure/02-storage/02-azure-storage-python.py (blob containers      *)
(*                                                    in storage accounts) *)
(* One run of a script is a cycle: main dispatches on the action and the   *)
(* action function issues provider calls one after the other.  Each        *)
(* provider call is one atomic step, so that two runs of a script          *)
(* interleave call by call.  The provider answers a call from the state of *)
(* the backend, or with an injected error.                                 *)
(***************************************************************************)
EXTENDS Integers, Sequences, FiniteSets, TLC

(***************************************************************************)
(* Bounds of the model.                                                    *)
(***************************************************************************)
\* Runs of a script in a behaviour, all callers together.
MaxCycles == 2
\* Seconds the wall clock advances during a behaviour.
MaxTicks == 1
\* Provider calls answered with an injected error during a behaviour.
MaxFaults == 1
\* Objects a bucket that exists before the first run may hold.
MaxObjs == 1
\* Epoch second at which the behaviour starts (the clock is StartTime + ticks).
StartTime == 1762199999

\* The two callers (processes running a script).
Procs == {"p1", "p2"}
\* The provider whose script is run in a behaviour.
Providers == {"aws", "gcp", "azure"}

\* Logical names, as sequences of characters: "a-B" and "--".
LogicalNames == { <<"a", "-", "B">>, <<"-", "-">> }

(***************************************************************************)
(* Azure: generate_storage_account_name.                                   *)
(***************************************************************************)
\* str.lower() on one character.
Lower(ch) == CASE ch = "A" -> "a" [] ch = "B" -> "b" [] OTHER -> ch

\* container_name.lower().replace('-', '')
RECURSIVE LowerNoDash(_)
LowerNoDash(s) ==
    IF s = <<>> THEN <<>>
    ELSE IF Head(s) = "-" THEN LowerNoDash(Tail(s))
         ELSE <<Lower(Head(s))>> \o LowerNoDash(Tail(s))

\* s[:n]
Take(s, n) == SubSeq(s, 1, IF Len(s) < n THEN Len(s) ELSE n)

\* s[-n:]
LastN(s, n) == SubSeq(s, IF Len(s) < n THEN 1 ELSE Len(s) - n + 1, Len(s))

DigitChars == <<"0", "1", "2", "3", "4", "5", "6", "7", "8", "9">>
HexChars == DigitChars \o <<"a", "b", "c", "d", "e", "f">>

\* str(n) for a natural number n.
RECURSIVE Str(_)
Str(n) == IF n < 10 THEN <<DigitChars[n + 1]>>
          ELSE Str(n \div 10) \o <<DigitChars[(n % 10) + 1]>>

\* The byte of a character (container_name.encode()).
Code(ch) == CASE ch = "a" -> 97 [] ch = "b" -> 98 [] ch = "A" -> 65
              [] ch = "B" -> 66 [] ch = "-" -> 45 [] OTHER -> 0

\* hashlib.md5(container_name.encode()).hexdigest(), its first four hex
\* digits: a digest of the bytes of the name as given (case and dashes
\* included).  MD5 is abstracted by a polynomial digest: a function of the
\* bytes alone.
RECURSIVE Digest(_, _)
Digest(s, h) == IF s = <<>> THEN h
                ELSE Digest(Tail(s), (h * 31 + Code(Head(s))) % 65536)

Md5Hex4(s) ==
    LET h == Digest(s, 7) IN
      << HexChars[((h \div 4096) % 16) + 1], HexChars[((h \div 256) % 16) + 1],
         HexChars[((h \div 16) % 16) + 1], HexChars[(h % 16) + 1] >>

\* The lengths of generate_storage_account_name: the prefix kept of the name,
\* the digits kept of the clock, the hex digits kept of the digest, and the
\* length the account name is cut to.
PrefixLen == 15
TimestampLen == 4
HashLen == 4
AccountNameLen == 24

\* A variant of generate_storage_account_name that leaves the container name
\* out of the account name.
generate_storage_account_name_shared(container_name, t) ==
    Take(LastN(Str(t), TimestampLen) \o Md5Hex4(<<>>), AccountNameLen)

\* generate_storage_account_name(container_name), called when time.time() = t.
generate_storage_account_name(container_name, t) ==
    LET prefix == Take(LowerNoDash(container_name), PrefixLen)
        timestamp == LastN(Str(t), TimestampLen)
        hash_suffix == Take(Md5Hex4(container_name), HashLen)
    IN Take(prefix \o timestamp \o hash_suffix, AccountNameLen)

(***************************************************************************)
(* State.                                                                  *)
(***************************************************************************)
VARIABLES
    prov,        \* the provider of this behaviour
    now,         \* time.time(), in whole seconds
    buckets,     \* AWS, GCP: the names of the buckets that exist
    objs,        \* AWS, GCP: number of objects in each bucket
    accounts,    \* Azure: the storage accounts that exist (their names)
    containers,  \* Azure: the containers that exist, as <<account, name>>
    pc,          \* per caller: the provider call its run issues next
    cur,         \* per caller: the run in progress
    hist,        \* per caller: the runs it has completed, oldest first
    faults       \* the provider calls answered with an injected error so far

vars == <<prov, now, buckets, objs, accounts, containers, pc, cur, hist, faults>>

backend == <<buckets, objs, accounts, containers>>

NoAccount == <<>>

\* The record of a run before main has started it.
NoRun == [action |-> "none", name |-> <<>>, acct |-> NoAccount, calls |-> <<>>,
          blobs |-> 0, listed |-> -1, outcome |-> "none", exit |-> -1,
          own |-> [present |-> FALSE, account |-> FALSE, objects |-> 0],
          pre |-> FALSE, preParent |-> FALSE, others |-> FALSE]

Outcomes == {"Created", "AlreadyExisted", "Deleted", "AlreadyAbsent",
             "Described", "Listed", "Failed"}
SuccessOutcomes == Outcomes \ {"Failed"}

\* Errors the provider may answer any call with, whatever the backend's state:
\* access denied (403), another error reported by the provider, and a failure
\* below the provider's protocol (connection, endpoint, credentials).
InjectedErrors == {"denied", "error", "transport"}

\* The answers to a call whose answer from the backend's state is nat.
Answers(nat) ==
    {[resp |-> nat, inj |-> FALSE]} \cup
    (IF faults < MaxFaults
     THEN {[resp |-> e, inj |-> TRUE] : e \in InjectedErrors} ELSE {})

\* The answers to a create call: also a conflict with a resource of the same
\* name that the caller does not see (the provider's namespace is global).
CreateAnswers(nat) ==
    Answers(nat) \cup
    (IF nat # "conflict" /\ faults < MaxFaults
     THEN {[resp |-> "conflict", inj |-> TRUE]} ELSE {})

\* The run c after the call op, answered r.
Called(c, op, r) ==
    [c EXCEPT !.calls = Append(@, [op |-> op, resp |-> r.resp, inj |-> r.inj])]

\* The run c ended: the branch the script returned by, and sys.exit's status.
Ended(c, outcome, exit) == [c EXCEPT !.outcome = outcome, !.exit = exit]

\* The logical container of name n exists in the backend.
Present(n) ==
    IF prov = "azure" THEN \E a \in accounts : <<a, n>> \in containers
    ELSE n \in buckets

\* The instants of the clock.
Times == StartTime .. (StartTime + MaxTicks)

\* Azure: the accounts that exist and are a derivation of the name n.
DerivedAccounts(n) ==
    {a \in accounts : \E t \in (StartTime - 1) .. (StartTime + MaxTicks) :
                         a = generate_storage_account_name(n, t)}

Init ==
    /\ prov \in Providers
    /\ now = StartTime
    /\ \E pre \in SUBSET LogicalNames, k \in 0 .. MaxObjs :
         IF prov = "azure"
         THEN \* containers made by earlier create runs, at the second t0
              /\ \E t0 \in {StartTime - 1, StartTime} :
                   /\ accounts = {generate_storage_account_name(n, t0) : n \in pre}
                   /\ containers =
                        {<<generate_storage_account_name(n, t0), n>> : n \in pre}
              /\ k = 0
              /\ buckets = {}
              /\ objs = [n \in LogicalNames |-> 0]
         ELSE /\ buckets = pre
              /\ objs = [n \in LogicalNames |-> IF n \in pre THEN k ELSE 0]
              /\ accounts = {}
              /\ containers = {}
    /\ pc = [p \in Procs |-> "idle"]
    /\ cur = [p \in Procs |-> NoRun]
    /\ hist = [p \in Procs |-> <<>>]
    /\ faults = 0

\* A run is in progress: main has started it and it has not exited.
InProgress(q) == pc[q] \notin {"idle", "done"}

\* The runs begun so far by caller q.
Begun(q) == Len(hist[q]) + (IF pc[q] = "idle" THEN 0 ELSE 1)

\* Caller p may begin a run: it has no run under way, the behaviour has runs
\* left, and the caller named p2 is the one that comes second.
MayBegin(p) ==
    /\ pc[p] = "idle"
    /\ Begun("p1") + Begun("p2") < MaxCycles
    /\ p = "p2" => Begun("p1") > 0

\* Some other caller has a run in progress.
OthersActive(p) == \E q \in Procs \ {p} : InProgress(q)

\* What the backend holds, as a run begins, of the resources the run names:
\* the container (the bucket n, or the container n of the account acct), the
\* account, and the number of objects in the bucket.
Own(n, acct) ==
    IF prov = "azure"
    THEN [present |-> <<acct, n>> \in containers,
          account |-> acct \in accounts,
          objects |-> 0]
    ELSE [present |-> n \in buckets, account |-> TRUE, objects |-> objs[n]]

\* A new run of caller p: what main records before it dispatches.
NewRun(p, action, n, acct) ==
    [NoRun EXCEPT !.action = action, !.name = n, !.acct = acct,
                  !.pre = Present(n), !.preParent = (DerivedAccounts(n) # {}),
                  !.own = Own(n, acct),
                  !.others = OthersActive(p)]

\* The last call of the run c was answered with an injected error.
Injected(c) == c.calls # <<>> /\ c.calls[Len(c.calls)].inj

\* A step of caller p: its run becomes c and continues at next.  The other
\* runs in progress are marked as having had company.
Step(p, next, c) ==
    /\ pc' = [pc EXCEPT ![p] = next]
    /\ cur' = [q \in Procs |->
                 IF q = p THEN c
                 ELSE IF InProgress(q) THEN [cur[q] EXCEPT !.others = TRUE]
                 ELSE cur[q]]
    /\ faults' = IF pc[p] # "idle" /\ Injected(c) THEN faults + 1 ELSE faults

(***************************************************************************)
(* AWS: src/aws/02-storage/02-bucket-python.py                             *)
(***************************************************************************)
\* main: dispatch on the action.
AwsMain(p) ==
    /\ prov = "aws"
    /\ MayBegin(p)
    /\ \E action \in {"create", "delete", "check", "list"}, n \in LogicalNames :
         /\ action = "list" => n = <<"-", "-">>
         /\ Step(p, IF action = "list" THEN "aws_list_buckets" ELSE "aws_head_bucket",
                 NewRun(p, action, n, NoAccount))
    /\ UNCHANGED <<prov, now, backend, hist>>

\* bucket_exists: True, False, or the process exits with status 1 (sys.exit(1)
\* for a ClientError that is not a 404; any other exception reaches main's
\* except clause, which exits with status 1 too).
bucket_exists(resp) ==
    CASE resp = "ok" -> "True"
      [] resp = "notfound" -> "False"
      [] OTHER -> "exit1"

\* The call s3_client.head_bucket of bucket_exists, and the branch each of
\* create_bucket, delete_bucket and check_bucket takes on its result.
AwsHeadBucket(p) ==
    /\ pc[p] = "aws_head_bucket"
    /\ \E r \in Answers(IF cur[p].name \in buckets THEN "ok" ELSE "notfound") :
         LET c == Called(cur[p], "head_bucket", r)
             exists == bucket_exists(r.resp)
         IN CASE exists = "exit1" -> Step(p, "done", Ended(c, "Failed", 1))
              [] exists = "True" /\ c.action = "create" ->
                   Step(p, "done", Ended(c, "AlreadyExisted", 0))
              [] exists = "True" /\ c.action = "delete" ->
                   Step(p, "aws_list_objects", c)
              [] exists = "True" /\ c.action = "check" ->
                   Step(p, "aws_get_bucket_location", c)
              [] exists = "False" /\ c.action = "create" ->
                   Step(p, "aws_create_bucket", c)
              [] exists = "False" /\ c.action = "delete" ->
                   Step(p, "done", Ended(c, "AlreadyAbsent", 0))
              [] exists = "False" /\ c.action = "check" ->
                   Step(p, "done", Ended(c, "Failed", 1))
    /\ UNCHANGED <<prov, now, backend, hist>>

\* main: the exit status for what the action function returned.
MainExit(outcome) == IF outcome \in SuccessOutcomes THEN 0 ELSE 1

\* create_bucket: the outcome of the call s3_client.create_bucket.  The
\* ClientErrors BucketAlreadyExists and BucketAlreadyOwnedByYou return True,
\* another ClientError returns False, another exception reaches main.
AwsCreateOutcome(resp) ==
    IF resp \in {"ok", "conflict"} THEN "Created" ELSE "Failed"

\* A variant of create_bucket that calls s3_client.create_bucket again when
\* the call failed.
AwsCreateBucketRetry(p) ==
    /\ pc[p] = "aws_create_bucket"
    /\ \E r \in CreateAnswers(IF cur[p].name \in buckets THEN "conflict" ELSE "ok") :
         LET c == Called(cur[p], "create_bucket", r)
             outcome == AwsCreateOutcome(r.resp)
         IN /\ buckets' = IF r.resp = "ok" THEN buckets \cup {c.name} ELSE buckets
            /\ IF outcome = "Failed" /\ Len(c.calls) < 4
               THEN Step(p, "aws_create_bucket", c)
               ELSE Step(p, "done", Ended(c, outcome, MainExit(outcome)))
    /\ UNCHANGED <<prov, now, objs, accounts, containers, hist>>

\* create_bucket, from the call s3_client.create_bucket on (with or without
\* the LocationConstraint: the region changes the request, not the branch).
AwsCreateBucket(p) ==
    /\ pc[p] = "aws_create_bucket"
    /\ \E r \in CreateAnswers(IF cur[p].name \in buckets THEN "conflict" ELSE "ok") :
         LET c == Called(cur[p], "create_bucket", r)
             outcome == AwsCreateOutcome(r.resp)
         IN /\ buckets' = IF r.resp = "ok" THEN buckets \cup {c.name} ELSE buckets
            /\ Step(p, "done", Ended(c, outcome, MainExit(outcome)))
    /\ UNCHANGED <<prov, now, objs, accounts, containers, hist>>

\* What the try block around the emptying of the bucket lets through: a
\* ClientError is caught and printed, any other exception leaves delete_bucket.
AwsEmptyCaught(resp) == resp \in {"notfound", "denied", "error"}

\* delete_bucket: bucket.objects.all().delete(), the listing of the objects.
AwsListObjects(p) ==
    /\ pc[p] = "aws_list_objects"
    /\ \E r \in Answers(IF cur[p].name \in buckets THEN "ok" ELSE "notfound") :
         LET c == [Called(cur[p], "list_objects", r) EXCEPT
                      !.blobs = IF r.resp = "ok" THEN objs[cur[p].name] ELSE 0]
         IN CASE r.resp = "ok" /\ c.blobs > 0 -> Step(p, "aws_delete_objects", c)
              [] r.resp = "ok" /\ c.blobs = 0 -> Step(p, "aws_delete_bucket", c)
              [] AwsEmptyCaught(r.resp) -> Step(p, "aws_delete_bucket", c)
              [] OTHER -> Step(p, "done", Ended(c, "Failed", 1))
    /\ UNCHANGED <<prov, now, backend, hist>>

\* delete_bucket: bucket.objects.all().delete(), the deletion of the objects
\* listed.
AwsDeleteObjects(p) ==
    /\ pc[p] = "aws_delete_objects"
    /\ \E r \in Answers(IF cur[p].name \in buckets THEN "ok" ELSE "notfound") :
         LET c == Called(cur[p], "delete_objects", r) IN
           /\ objs' = IF r.resp = "ok" THEN [objs EXCEPT ![c.name] = 0] ELSE objs
           /\ CASE r.resp = "ok" -> Step(p, "aws_delete_bucket", c)
                [] AwsEmptyCaught(r.resp) -> Step(p, "aws_delete_bucket", c)
                [] OTHER -> Step(p, "done", Ended(c, "Failed", 1))
    /\ UNCHANGED <<prov, now, buckets, accounts, containers, hist>>

\* delete_bucket: the outcome of the call s3_client.delete_bucket.  Every
\* ClientError returns False, every other exception reaches main.
AwsDeleteOutcome(resp) == IF resp = "ok" THEN "Deleted" ELSE "Failed"

\* delete_bucket, from the call s3_client.delete_bucket on.
AwsDeleteBucket(p) ==
    /\ pc[p] = "aws_delete_bucket"
    /\ \E r \in Answers(IF cur[p].name \notin buckets THEN "notfound"
                        ELSE IF objs[cur[p].name] > 0 THEN "notempty" ELSE "ok") :
         LET c == Called(cur[p], "delete_bucket", r)
             outcome == AwsDeleteOutcome(r.resp)
         IN /\ buckets' = IF r.resp = "ok" THEN buckets \ {c.name} ELSE buckets
            /\ Step(p, "done", Ended(c, outcome, MainExit(outcome)))
    /\ UNCHANGED <<prov, now, objs, accounts, containers, hist>>

\* check_bucket: s3_client.get_bucket_location.  A ClientError is printed and
\* check_bucket still returns True; any other exception reaches main.
AwsGetBucketLocation(p) ==
    /\ pc[p] = "aws_get_bucket_location"
    /\ \E r \in Answers(IF cur[p].name \in buckets THEN "ok" ELSE "notfound") :
         LET c == Called(cur[p], "get_bucket_location", r) IN
           CASE r.resp = "ok" -> Step(p, "aws_list_created", c)
             [] r.resp = "transport" -> Step(p, "done", Ended(c, "Failed", 1))
             [] OTHER -> Step(p, "done", Ended(c, "Described", 0))
    /\ UNCHANGED <<prov, now, backend, hist>>

\* check_bucket: s3_client.list_buckets, for the creation date.
AwsListCreated(p) ==
    /\ pc[p] = "aws_list_created"
    /\ \E r \in Answers("ok") :
         LET c == Called(cur[p], "list_buckets", r) IN
           CASE r.resp = "transport" -> Step(p, "done", Ended(c, "Failed", 1))
             [] OTHER -> Step(p, "done", Ended(c, "Described", 0))
    /\ UNCHANGED <<prov, now, backend, hist>>

\* A variant of list_buckets that returns False when there is no bucket.
AwsListOutcomeNonEmpty(resp, n) ==
    IF resp = "ok" /\ n > 0 THEN "Listed" ELSE "Failed"

\* list_buckets: what it returns for the answer of s3_client.list_buckets
\* with n buckets.  "No buckets found" and the printed list both return True,
\* a ClientError returns False.
AwsListOutcome(resp, n) ==
    CASE resp = "ok" /\ n = 0 -> "Listed"
      [] resp = "ok" /\ n > 0 -> "Listed"
      [] OTHER -> "Failed"

\* list_buckets, and main's exit status for the list action.  An empty and a
\* non-empty answer return True, a ClientError returns False, and any other
\* exception is not caught (the list action runs outside main's try block).
AwsListBuckets(p) ==
    /\ pc[p] = "aws_list_buckets"
    /\ \E r \in Answers("ok") :
         LET n == IF r.resp = "ok" THEN Cardinality(buckets) ELSE -1
             c == [Called(cur[p], "list_buckets", r) EXCEPT !.listed = n]
             outcome == AwsListOutcome(r.resp, n)
         IN Step(p, "done", Ended(c, outcome, MainExit(outcome)))
    /\ UNCHANGED <<prov, now, backend, hist>>

(***************************************************************************)
(* GCP: src/gcp/02-storage/02-python-bucket.py                             *)
(***************************************************************************)
\* main: dispatch on the action.
GcpMain(p) ==
    /\ prov = "gcp"
    /\ MayBegin(p)
    /\ \E action \in {"create", "delete", "check"}, n \in LogicalNames :
         Step(p, "gcp_get_bucket", NewRun(p, action, n, NoAccount))
    /\ UNCHANGED <<prov, now, backend, hist>>

\* The call storage_client.get_bucket that opens create_bucket, delete_bucket
\* and check_bucket.  NotFound is the absent bucket; every other exception
\* reaches the function's except Exception clause, which returns False.
GcpGetBucket(p) ==
    /\ pc[p] = "gcp_get_bucket"
    /\ \E r \in Answers(IF cur[p].name \in buckets THEN "ok" ELSE "notfound") :
         LET c == Called(cur[p], "get_bucket", r) IN
           CASE r.resp = "ok" /\ c.action = "create" ->
                  Step(p, "done", Ended(c, "AlreadyExisted", 0))
             [] r.resp = "ok" /\ c.action = "delete" ->
                  Step(p, "gcp_list_blobs", c)
             [] r.resp = "ok" /\ c.action = "check" ->
                  Step(p, "done", Ended(c, "Described", 0))
             [] r.resp = "notfound" /\ c.action = "create" ->
                  Step(p, "gcp_create_bucket", c)
             [] r.resp = "notfound" /\ c.action = "delete" ->
                  Step(p, "done", Ended(c, "AlreadyAbsent", 0))
             [] OTHER -> Step(p, "done", Ended(c, "Failed", 1))
    /\ UNCHANGED <<prov, now, backend, hist>>

\* create_bucket: the outcome of the call storage_client.create_bucket.
\* Conflict returns False, and so does every other exception.
GcpCreateOutcome(resp) == IF resp = "ok" THEN "Created" ELSE "Failed"

\* create_bucket, from the call storage_client.create_bucket on.
GcpCreateBucket(p) ==
    /\ pc[p] = "gcp_create_bucket"
    /\ \E r \in CreateAnswers(IF cur[p].name \in buckets THEN "conflict" ELSE "ok") :
         LET c == Called(cur[p], "create_bucket", r)
             outcome == GcpCreateOutcome(r.resp)
         IN /\ buckets' = IF r.resp = "ok" THEN buckets \cup {c.name} ELSE buckets
            /\ Step(p, "done", Ended(c, outcome, MainExit(outcome)))
    /\ UNCHANGED <<prov, now, objs, accounts, containers, hist>>

\* A variant of the listing in delete_bucket that goes on to bucket.delete()
\* without deleting the blobs it listed.
GcpListBlobsSkip(p) ==
    /\ pc[p] = "gcp_list_blobs"
    /\ \E r \in Answers(IF cur[p].name \in buckets THEN "ok" ELSE "notfound") :
         LET c == [Called(cur[p], "list_blobs", r) EXCEPT
                      !.blobs = IF r.resp = "ok" THEN objs[cur[p].name] ELSE 0]
         IN Step(p, "gcp_delete_bucket", c)
    /\ UNCHANGED <<prov, now, backend, hist>>

\* delete_bucket: list(bucket.list_blobs()).  An exception is printed as a
\* warning; delete_bucket goes on to bucket.delete().
GcpListBlobs(p) ==
    /\ pc[p] = "gcp_list_blobs"
    /\ \E r \in Answers(IF cur[p].name \in buckets THEN "ok" ELSE "notfound") :
         LET c == [Called(cur[p], "list_blobs", r) EXCEPT
                      !.blobs = IF r.resp = "ok" THEN objs[cur[p].name] ELSE 0]
         IN Step(p, IF c.blobs > 0 THEN "gcp_delete_blobs" ELSE "gcp_delete_bucket", c)
    /\ UNCHANGED <<prov, now, backend, hist>>

\* delete_bucket: bucket.delete_blobs(blobs), under the same try block.
GcpDeleteBlobs(p) ==
    /\ pc[p] = "gcp_delete_blobs"
    /\ \E r \in Answers(IF cur[p].name \in buckets /\ objs[cur[p].name] > 0
                        THEN "ok" ELSE "notfound") :
         LET c == Called(cur[p], "delete_blobs", r) IN
           /\ objs' = IF r.resp = "ok" THEN [objs EXCEPT ![c.name] = 0] ELSE objs
           /\ Step(p, "gcp_delete_bucket", c)
    /\ UNCHANGED <<prov, now, buckets, accounts, containers, hist>>

\* delete_bucket: the outcome of the call bucket.delete().  NotFound returns
\* True, every other exception (a Conflict for a bucket with objects among
\* them) returns False.
GcpDeleteOutcome(resp) ==
    IF resp \in {"ok", "notfound"} THEN "Deleted" ELSE "Failed"

\* delete_bucket, from the call bucket.delete() on.
GcpDeleteBucket(p) ==
    /\ pc[p] = "gcp_delete_bucket"
    /\ \E r \in Answers(IF cur[p].name \notin buckets THEN "notfound"
                        ELSE IF objs[cur[p].name] > 0 THEN "notempty" ELSE "ok") :
         LET c == Called(cur[p], "delete_bucket", r)
             outcome == GcpDeleteOutcome(r.resp)
         IN /\ buckets' = IF r.resp = "ok" THEN buckets \ {c.name} ELSE buckets
            /\ Step(p, "done", Ended(c, outcome, MainExit(outcome)))
    /\ UNCHANGED <<prov, now, objs, accounts, containers, hist>>

(***************************************************************************)
(* Azure: src/azure/02-storage/02-azure-storage-python.py                  *)
(* _get_blob_service_client (the call list_keys on the account) runs in    *)
(* the same step as the container call it prepares: the scripts never      *)
(* delete an account, so list_keys answers at the later call as it would   *)
(* at the earlier one.  It fails for an account that does not exist.       *)
(***************************************************************************)
\* main: the clock has advanced to t; the account name is generated and the
\* action dispatched.  list-accounts returns before the name is generated.
AzMain(p) ==
    /\ prov = "azure"
    /\ MayBegin(p)
    /\ \E action \in {"create", "delete", "check", "list-containers", "list-accounts"},
          n \in LogicalNames, t \in Times :
         /\ t >= now
         /\ now' = t
         /\ action = "list-accounts" => n = <<"-", "-">>
         /\ Step(p,
                 CASE action = "create" -> "az_account_exists"
                   [] action = "list-containers" -> "az_account_exists"
                   [] action = "list-accounts" -> "az_list_accounts"
                   [] OTHER -> "az_container_exists",
                 NewRun(p, action, n,
                        IF action = "list-accounts" THEN NoAccount
                        ELSE generate_storage_account_name(n, t)))
    /\ UNCHANGED <<prov, backend, hist>>

\* main: the exit status.  The list actions end main without sys.exit.
AzMainExit(action, outcome) ==
    IF action \in {"list-containers", "list-accounts"} THEN 0
    ELSE MainExit(outcome)

\* A variant of storage_account_exists that returns True whatever
\* get_properties answered.
storage_account_exists_always(resp) == TRUE

\* storage_account_exists: True for an answer, False for ResourceNotFoundError
\* and for every other exception.
storage_account_exists(resp) == (resp = "ok")

\* The call get_properties of storage_account_exists, in create_storage_account
\* (for create_container) and in list_containers.
AzStorageAccountExists(p) ==
    /\ pc[p] = "az_account_exists"
    /\ \E r \in Answers(IF cur[p].acct \in accounts THEN "ok" ELSE "notfound") :
         LET c == Called(cur[p], "get_properties", r)
             exists == storage_account_exists(r.resp)
         IN CASE exists /\ c.action = "create" -> Step(p, "az_container_exists", c)
              [] ~exists /\ c.action = "create" -> Step(p, "az_begin_create", c)
              [] exists /\ c.action = "list-containers" ->
                   Step(p, "az_list_containers", c)
              [] ~exists /\ c.action = "list-containers" ->
                   Step(p, "done", Ended(c, "Failed", AzMainExit(c.action, "Failed")))
    /\ UNCHANGED <<prov, now, backend, hist>>

\* A variant of create_storage_account that returns True whatever begin_create
\* answered.
create_storage_account_always(resp) == TRUE

\* create_storage_account: what it returns for the answer to begin_create and
\* the poller's result.  ResourceExistsError returns True.
create_storage_account(resp) == resp \in {"ok", "conflict"}

\* create_storage_account, from begin_create on, and create_container's
\* return of False when it fails.  Creating an account that exists in the
\* resource group succeeds and leaves it as it is.
AzBeginCreate(p) ==
    /\ pc[p] = "az_begin_create"
    /\ \E r \in CreateAnswers("ok") :
         LET c == Called(cur[p], "begin_create", r) IN
           /\ accounts' = IF r.resp = "ok" THEN accounts \cup {c.acct} ELSE accounts
           /\ IF create_storage_account(r.resp)
              THEN Step(p, "az_container_exists", c)
              ELSE Step(p, "done", Ended(c, "Failed", AzMainExit(c.action, "Failed")))
    /\ UNCHANGED <<prov, now, buckets, objs, containers, hist>>

\* The backend's answer to a call on the container name in the account acct.
ContainerAnswer(acct, name) ==
    IF acct \notin accounts THEN "noaccount"
    ELSE IF <<acct, name>> \in containers THEN "ok" ELSE "notfound"

\* A variant of container_exists that takes a container that is not found for
\* one that exists.
container_exists_lenient(resp) == resp \in {"ok", "notfound"}

\* container_exists: what exists() returned, and False for every exception.
container_exists(resp) == (resp = "ok")

\* container_exists (list_keys, then container_client.exists()), and the
\* branch create_container, delete_container and check_container take.
AzContainerExists(p) ==
    /\ pc[p] = "az_container_exists"
    /\ \E r \in Answers(ContainerAnswer(cur[p].acct, cur[p].name)) :
         LET c == Called(cur[p], "container_exists", r)
             exists == container_exists(r.resp)
         IN CASE exists /\ c.action = "create" ->
                   Step(p, "done", Ended(c, "AlreadyExisted", 0))
              [] ~exists /\ c.action = "create" ->
                   Step(p, "az_create_container", c)
              [] exists /\ c.action = "delete" ->
                   Step(p, "az_delete_container", c)
              [] ~exists /\ c.action = "delete" ->
                   Step(p, "done", Ended(c, "AlreadyAbsent", 0))
              [] exists /\ c.action = "check" ->
                   Step(p, "az_get_properties", c)
              [] ~exists /\ c.action = "check" ->
                   Step(p, "done", Ended(c, "Failed", 1))
    /\ UNCHANGED <<prov, now, backend, hist>>

\* create_container: the outcome of list_keys and create_container.
\* ResourceExistsError returns True, every other exception False.
AzCreateOutcome(resp) ==
    IF resp \in {"ok", "conflict"} THEN "Created" ELSE "Failed"

\* create_container, from _get_blob_service_client on.
AzCreateContainer(p) ==
    /\ pc[p] = "az_create_container"
    /\ \E r \in CreateAnswers(
                  LET a == ContainerAnswer(cur[p].acct, cur[p].name) IN
                    CASE a = "ok" -> "conflict"
                      [] a = "notfound" -> "ok"
                      [] OTHER -> a) :
         LET c == Called(cur[p], "create_container", r)
             outcome == AzCreateOutcome(r.resp)
         IN /\ containers' = IF r.resp = "ok"
                             THEN containers \cup {<<c.acct, c.name>>}
                             ELSE containers
            /\ Step(p, "done", Ended(c, outcome, AzMainExit(c.action, outcome)))
    /\ UNCHANGED <<prov, now, buckets, objs, accounts, hist>>

\* delete_container: the outcome of list_keys and delete_container.
\* ResourceNotFoundError (of either call) returns True, every other exception
\* False.
AzDeleteOutcome(resp) ==
    IF resp \in {"ok", "notfound", "noaccount"} THEN "Deleted" ELSE "Failed"

\* A variant of delete_container that removes the storage account with the
\* container.
AzDeleteContainerAndAccount(p) ==
    /\ pc[p] = "az_delete_container"
    /\ \E r \in Answers(ContainerAnswer(cur[p].acct, cur[p].name)) :
         LET c == Called(cur[p], "delete_container", r)
             outcome == AzDeleteOutcome(r.resp)
         IN /\ containers' = IF r.resp = "ok"
                             THEN containers \ {<<c.acct, c.name>>}
                             ELSE containers
            /\ accounts' = IF r.resp = "ok" THEN accounts \ {c.acct} ELSE accounts
            /\ Step(p, "done", Ended(c, outcome, AzMainExit(c.action, outcome)))
    /\ UNCHANGED <<prov, now, buckets, objs, hist>>

\* delete_container, from _get_blob_service_client on.
AzDeleteContainer(p) ==
    /\ pc[p] = "az_delete_container"
    /\ \E r \in Answers(ContainerAnswer(cur[p].acct, cur[p].name)) :
         LET c == Called(cur[p], "delete_container", r)
             outcome == AzDeleteOutcome(r.resp)
         IN /\ containers' = IF r.resp = "ok"
                             THEN containers \ {<<c.acct, c.name>>}
                             ELSE containers
            /\ Step(p, "done", Ended(c, outcome, AzMainExit(c.action, outcome)))
    /\ UNCHANGED <<prov, now, buckets, objs, accounts, hist>>

\* check_container, from _get_blob_service_client on: the properties, or
\* False for every exception.
AzGetProperties(p) ==
    /\ pc[p] = "az_get_properties"
    /\ \E r \in Answers(ContainerAnswer(cur[p].acct, cur[p].name)) :
         LET c == Called(cur[p], "get_container_properties", r)
             outcome == IF r.resp = "ok" THEN "Described" ELSE "Failed"
         IN Step(p, "done", Ended(c, outcome, AzMainExit(c.action, outcome)))
    /\ UNCHANGED <<prov, now, backend, hist>>

\* list_containers and list_storage_accounts: how the listing ends for the
\* answer of the list call with n items.  The loop over the items prints
\* them, none or some; an exception is logged as an error.
AzListOutcome(resp, n) ==
    CASE resp = "ok" /\ n = 0 -> "Listed"
      [] resp = "ok" /\ n > 0 -> "Listed"
      [] OTHER -> "Failed"

\* list_containers, from _get_blob_service_client on.  An exception is logged
\* as an error; list_containers returns nothing and main sets success = True.
AzListContainers(p) ==
    /\ pc[p] = "az_list_containers"
    /\ \E r \in Answers(IF cur[p].acct \in accounts THEN "ok" ELSE "noaccount") :
         LET n == IF r.resp = "ok"
                  THEN Cardinality({x \in containers : x[1] = cur[p].acct})
                  ELSE -1
             c == [Called(cur[p], "list_containers", r) EXCEPT !.listed = n]
             outcome == AzListOutcome(r.resp, n)
         IN Step(p, "done", Ended(c, outcome, AzMainExit(c.action, outcome)))
    /\ UNCHANGED <<prov, now, backend, hist>>

\* list_storage_accounts.  An exception is logged as an error, and main
\* returns.
AzListAccounts(p) ==
    /\ pc[p] = "az_list_accounts"
    /\ \E r \in Answers("ok") :
         LET n == IF r.resp = "ok" THEN Cardinality(accounts) ELSE -1
             c == [Called(cur[p], "list_by_resource_group", r) EXCEPT !.listed = n]
             outcome == AzListOutcome(r.resp, n)
         IN Step(p, "done", Ended(c, outcome, AzMainExit(c.action, outcome)))
    /\ UNCHANGED <<prov, now, backend, hist>>

\* The process has exited; the caller may run the script again.
Return(p) ==
    /\ pc[p] = "done"
    /\ hist' = [hist EXCEPT ![p] = Append(@, cur[p])]
    /\ pc' = [pc EXCEPT ![p] = "idle"]
    /\ cur' = [cur EXCEPT ![p] = NoRun]
    /\ UNCHANGED <<prov, now, backend, faults>>

Next ==
    \/ \E p \in Procs : AwsMain(p)
    \/ \E p \in Procs : AwsHeadBucket(p)
    \/ \E p \in Procs : AwsCreateBucket(p)
    \/ \E p \in Procs : AwsListObjects(p)
    \/ \E p \in Procs : AwsDeleteObjects(p)
    \/ \E p \in Procs : AwsDeleteBucket(p)
    \/ \E p \in Procs : AwsGetBucketLocation(p)
    \/ \E p \in Procs : AwsListCreated(p)
    \/ \E p \in Procs : AwsListBuckets(p)
    \/ \E p \in Procs : GcpMain(p)
    \/ \E p \in Procs : GcpGetBucket(p)
    \/ \E p \in Procs : GcpCreateBucket(p)
    \/ \E p \in Procs : GcpListBlobs(p)
    \/ \E p \in Procs : GcpDeleteBlobs(p)
    \/ \E p \in Procs : GcpDeleteBucket(p)
    \/ \E p \in Procs : AzMain(p)
    \/ \E p \in Procs : AzStorageAccountExists(p)
    \/ \E p \in Procs : AzBeginCreate(p)
    \/ \E p \in Procs : AzContainerExists(p)
    \/ \E p \in Procs : AzCreateContainer(p)
    \/ \E p \in Procs : AzDeleteContainer(p)
    \/ \E p \in Procs : AzGetProperties(p)
    \/ \E p \in Procs : AzListContainers(p)
    \/ \E p \in Procs : AzListAccounts(p)
    \/ \E p \in Procs : Return(p)

Spec == Init /\ [][Next]_vars

\* A provider call of the run of caller p returns, with an answer or an
\* exception, and the script takes the branch that follows.
ProviderCall(p) ==
    \/ AwsHeadBucket(p) \/ AwsCreateBucket(p) \/ AwsListObjects(p)
    \/ AwsDeleteObjects(p) \/ AwsDeleteBucket(p) \/ AwsGetBucketLocation(p)
    \/ AwsListCreated(p) \/ AwsListBuckets(p)
    \/ GcpGetBucket(p) \/ GcpCreateBucket(p) \/ GcpListBlobs(p)
    \/ GcpDeleteBlobs(p) \/ GcpDeleteBucket(p)
    \/ AzStorageAccountExists(p) \/ AzBeginCreate(p) \/ AzContainerExists(p)
    \/ AzCreateContainer(p) \/ AzDeleteContainer(p) \/ AzGetProperties(p)
    \/ AzListContainers(p) \/ AzListAccounts(p)

\* The behaviours in which every provider call returns.
LiveSpec == Spec /\ \A p \in Procs : WF_vars(ProviderCall(p))

(***************************************************************************)
(* The runs of a behaviour, and what the claims say of them.               *)
(***************************************************************************)
\* The runs that have exited.
FinishedRuns ==
    {cur[p] : p \in {q \in Procs : pc[q] = "done"}} \cup
    UNION {{hist[p][i] : i \in DOMAIN hist[p]} : p \in Procs}

\* The runs main has started, finished or not.
AllRuns == FinishedRuns \cup {cur[p] : p \in {q \in Procs : InProgress(q)}}

\* The first and only run of caller p, once it has exited.
OnlyRun(p) == IF pc[p] = "done" THEN cur[p] ELSE hist[p][1]

\* Both callers have made one run each, and both runs have exited.
BothRanOnce ==
    \A p \in Procs : Begun(p) = 1 /\ pc[p] \in {"idle", "done"}

\* The calls of the run c (their positions) whose operation is in ops.
CallsOf(c, ops) == {i \in DOMAIN c.calls : c.calls[i].op \in ops}

\* No call of the run c was answered with an injected error.
Clean(c) == \A i \in DOMAIN c.calls : ~c.calls[i].inj

\* The provider calls, by what they do.
ProbeOps == {"head_bucket", "get_bucket", "get_properties", "container_exists"}
ContainerCreateOps == {"create_bucket", "create_container"}
ParentCreateOps == {"begin_create"}
CleanupOps == {"list_objects", "delete_objects", "list_blobs", "delete_blobs"}
ContainerDeleteOps == {"delete_bucket", "delete_container"}
MutatingOps ==
    ContainerCreateOps \cup ParentCreateOps \cup CleanupOps \cup ContainerDeleteOps

\* The accounts that hold a container of the name n (Azure), and the number
\* of containers of the name n in the backend.
HoldersOf(n) == {a \in accounts : <<a, n>> \in containers}
CountOf(n) ==
    IF prov = "azure" THEN Cardinality(HoldersOf(n))
    ELSE IF n \in buckets THEN 1 ELSE 0

\* C1: two consecutive create runs of one caller for the same name, with no
\* other caller and no injected error, from a backend where the container and
\* its parent account are absent, end Created and then AlreadyExisted, with
\* exactly one container-create call and at most one account-create call
\* between them.
C1_CreateTwiceCreatesOnce ==
    \A p \in Procs : \A i \in 1 .. (Len(hist[p]) - 1) :
      LET a == hist[p][i]
          b == hist[p][i + 1]
      IN ( /\ \A q \in Procs \ {p} : Begun(q) = 0
           /\ a.action = "create" /\ b.action = "create" /\ a.name = b.name
           /\ Clean(a) /\ Clean(b)
           /\ ~a.pre /\ ~a.preParent )
         => /\ a.outcome = "Created"
            /\ b.outcome = "AlreadyExisted"
            /\ Cardinality(CallsOf(a, ContainerCreateOps))
                 + Cardinality(CallsOf(b, ContainerCreateOps)) = 1
            /\ Cardinality(CallsOf(a, ParentCreateOps))
                 + Cardinality(CallsOf(b, ParentCreateOps)) <= 1

\* C2: two consecutive delete runs of one caller for the same name, with no
\* other caller and no injected error, from a backend where the container is
\* present, end Deleted and then AlreadyAbsent, with at most one
\* container-delete call between them.
C2_DeleteTwiceDeletesOnce ==
    \A p \in Procs : \A i \in 1 .. (Len(hist[p]) - 1) :
      LET a == hist[p][i]
          b == hist[p][i + 1]
      IN ( /\ \A q \in Procs \ {p} : Begun(q) = 0
           /\ a.action = "delete" /\ b.action = "delete" /\ a.name = b.name
           /\ Clean(a) /\ Clean(b)
           /\ a.pre )
         => /\ a.outcome = "Deleted"
            /\ b.outcome = "AlreadyAbsent"
            /\ Cardinality(CallsOf(a, ContainerDeleteOps))
                 + Cardinality(CallsOf(b, ContainerDeleteOps)) <= 1

\* C3: in a create or delete run whose first existence probe is answered with
\* access denied, no create call (account or container), no cleanup call and
\* no delete call follows, and the run ends Failed.
C3_DeniedProbeStopsRun ==
    \A c \in AllRuns :
      ( /\ c.action \in {"create", "delete"}
        /\ c.calls # <<>>
        /\ c.calls[1].op \in ProbeOps
        /\ c.calls[1].resp = "denied" )
      => /\ CallsOf(c, MutatingOps) = {}
         /\ c \in FinishedRuns => c.outcome = "Failed"

\* C4: a create run that probed the container as absent and whose
\* container-create call is answered with a conflict (the container exists
\* already) ends with a success outcome.
C4_CreateConflictIsSuccess ==
    \A c \in FinishedRuns :
      ( /\ c.action = "create"
        /\ \E i \in CallsOf(c, ProbeOps) : c.calls[i].resp = "notfound"
        /\ \E i \in CallsOf(c, ContainerCreateOps) : c.calls[i].resp = "conflict" )
      => c.outcome \in SuccessOutcomes

\* C5: a delete run that probed the container as present and whose
\* container-delete call is answered with not-found (the container is gone
\* already) ends with a success outcome.
C5_DeleteNotFoundIsSuccess ==
    \A c \in FinishedRuns :
      ( /\ c.action = "delete"
        /\ \E i \in CallsOf(c, ProbeOps) : c.calls[i].resp = "ok"
        /\ \E i \in CallsOf(c, ContainerDeleteOps) : c.calls[i].resp = "notfound" )
      => c.outcome \in SuccessOutcomes

\* C6: two create runs for the same name by two callers, interleaved in any
\* way, with no injected error, from a backend where the container is absent:
\* both end with a success outcome, and exactly one container of that name
\* exists afterwards.
C6_ConcurrentCreatesConverge ==
    BothRanOnce =>
      LET a == OnlyRun("p1")
          b == OnlyRun("p2")
      IN ( /\ a.action = "create" /\ b.action = "create" /\ a.name = b.name
           /\ Clean(a) /\ Clean(b)
           /\ ~a.pre )
         => /\ a.outcome \in SuccessOutcomes
            /\ b.outcome \in SuccessOutcomes
            /\ CountOf(a.name) = 1

\* C7: two delete runs for the same name by two callers, interleaved in any
\* way, with no injected error, from a backend where the container is
\* present: both end with a success outcome, and the container is absent
\* afterwards.
C7_ConcurrentDeletesConverge ==
    BothRanOnce =>
      LET a == OnlyRun("p1")
          b == OnlyRun("p2")
      IN ( /\ a.action = "delete" /\ b.action = "delete" /\ a.name = b.name
           /\ Clean(a) /\ Clean(b)
           /\ a.pre )
         => /\ a.outcome \in SuccessOutcomes
            /\ b.outcome \in SuccessOutcomes
            /\ CountOf(a.name) = 0

\* C8: the account name derived from a logical name depends on the logical
\* name alone: any two runs for the same logical name (create, delete, check
\* or list-containers, at any two times) work on the same account.
C8_AccountNameIsStable ==
    \A c \in AllRuns, d \in AllRuns :
      ( /\ c.acct # NoAccount /\ d.acct # NoAccount
        /\ c.name = d.name )
      => c.acct = d.acct

\* C9: a run exits with status 0 exactly when it ended with a success
\* outcome: status 0 for every success, a non-zero status for every failure,
\* those of the list actions included.
C9_ExitStatusIsOutcome ==
    \A c \in FinishedRuns : (c.exit = 0) <=> (c.outcome \in SuccessOutcomes)

\* C10: in a delete run that probed the container as present, a failure of
\* any kind of a call that lists or deletes the container's objects does not
\* end the run: the container-delete call is issued after it, and its answer
\* alone decides the outcome (Deleted when it succeeds, Failed when the
\* provider refuses it for a container that is not empty).
C10_CleanupFailureIsNotFatal ==
    \A c \in FinishedRuns :
      \A i \in CallsOf(c, CleanupOps) :
        ( c.action = "delete" /\ c.calls[i].resp # "ok" )
        => \E j \in CallsOf(c, ContainerDeleteOps) :
             /\ j > i
             /\ c.calls[j].resp = "ok" => c.outcome = "Deleted"
             /\ c.calls[j].resp = "notempty" => c.outcome = "Failed"

\* The calls that fetch a container's metadata.  (The GCP script reads the
\* metadata off the bucket its probe, get_bucket, returned.)
DescribeOps == {"get_bucket_location", "get_container_properties"}

\* The answers by which the provider says that the container is not there.
AbsentAnswers == {"notfound", "noaccount"}

\* C11: a check run whose existence probe is answered absent ends Failed with
\* a non-zero status and issues no call after the probe; a check run whose
\* probe is answered present fetches the metadata and, when the calls after
\* the probe are answered, ends Described with status 0.
C11_CheckAbsentFailsPresentDescribes ==
    \A c \in AllRuns :
      ( c.action = "check" /\ c.calls # <<>> )
      => /\ c.calls[1].op \in ProbeOps
         /\ c.calls[1].resp \in AbsentAnswers
              => /\ Len(c.calls) = 1
                 /\ c \in FinishedRuns
                 /\ c.outcome = "Failed" /\ c.exit # 0
         /\ ( /\ c.calls[1].resp = "ok"
              /\ c \in FinishedRuns
              /\ \A i \in 2 .. Len(c.calls) : c.calls[i].resp = "ok" )
              => /\ c.outcome = "Described" /\ c.exit = 0
                 /\ prov # "gcp" => CallsOf(c, DescribeOps) # {}

\* C11, witness: a check run of an absent container has ended Failed after
\* its probe, and a check run of a present one has ended Described.
C11_Witness ==
    \E c \in FinishedRuns, d \in FinishedRuns :
      /\ c.action = "check" /\ c.calls[1].resp \in AbsentAnswers
      /\ c.outcome = "Failed" /\ Len(c.calls) = 1
      /\ d.action = "check" /\ d.calls[1].resp = "ok"
      /\ d.outcome = "Described"

\* C12: in an Azure create run, when the creation of the storage account
\* fails with an error that is not a conflict, the run ends Failed with a
\* non-zero status at that call: no probe of the container and no
\* container-create call follows.
C12_ParentFailureStopsCreate ==
    \A c \in AllRuns : \A i \in CallsOf(c, ParentCreateOps) :
      c.calls[i].resp \notin {"ok", "conflict"}
      => /\ i = Len(c.calls)
         /\ c \in FinishedRuns
         /\ c.outcome = "Failed" /\ c.exit # 0

\* C12, witness: a create run has ended on a failed account creation.
C12_Witness ==
    \E c \in FinishedRuns :
      /\ c.action = "create"
      /\ \E i \in CallsOf(c, ParentCreateOps) : c.calls[i].resp = "error"
      /\ c.outcome = "Failed"

\* The operations and the answers of the calls of the run c, in order.
OpsOf(c) == [i \in DOMAIN c.calls |-> c.calls[i].op]
AnswersOf(c) == [i \in DOMAIN c.calls |-> c.calls[i].resp]

\* An Azure create run that began with the container and every account
\* derived from its name absent, had no company and no injected error, and
\* has ended.
FreshAzureCreate(c) ==
    /\ prov = "azure" /\ c \in FinishedRuns
    /\ c.action = "create"
    /\ ~c.pre /\ ~c.preParent
    /\ ~c.others /\ Clean(c)

ListActions == {"list", "list-containers", "list-accounts"}
ListOps == {"list_buckets", "list_containers", "list_by_resource_group"}

\* C14, as claimed: a list run whose list call is answered, with no item or
\* with some, ends Listed with status 0; a list run ends Failed only when its
\* list call failed.
C14_ListFailsOnlyOnListCall ==
    \A c \in FinishedRuns :
      c.action \in ListActions
      => /\ (\E i \in CallsOf(c, ListOps) : c.calls[i].resp = "ok")
              => c.outcome = "Listed" /\ c.exit = 0
         /\ c.outcome = "Failed"
              => \E i \in CallsOf(c, ListOps) : c.calls[i].resp # "ok"

\* C14, amended: a list run whose list call is answered, with no item or with
\* some, ends Listed with status 0; a list run ends Failed only when its list
\* call failed or, for Azure's list-containers, when the probe of the storage
\* account did not find the account, and then no list call is issued.
C14_EmptyListIsSuccess ==
    \A c \in FinishedRuns :
      c.action \in ListActions
      => /\ (\E i \in CallsOf(c, ListOps) : c.calls[i].resp = "ok")
              => c.outcome = "Listed" /\ c.exit = 0
         /\ c.outcome = "Failed"
              => \/ \E i \in CallsOf(c, ListOps) : c.calls[i].resp # "ok"
                 \/ /\ prov = "azure" /\ c.action = "list-containers"
                    /\ CallsOf(c, ListOps) = {}
                    /\ OpsOf(c) = <<"get_properties">>
                    /\ c.calls[1].resp # "ok"

\* C14, witness: a list run whose list call returned no item has ended
\* Listed.
C14_Witness ==
    \E c \in FinishedRuns :
      /\ c.action \in ListActions /\ c.listed = 0
      /\ c.outcome = "Listed" /\ c.exit = 0

\* An outcome read as success or failure.
Succeeds(outcome) == outcome \in SuccessOutcomes

\* The answers every provider can give to a call: ok, not found, a conflict
\* with an existing container, access denied, another error.
CommonAnswers == {"ok", "notfound", "conflict", "denied", "error"}

\* C15: the three providers turn the same answer into the same success or
\* failure.  For every answer a run got from its container-create call, the
\* create functions of AWS, GCP and Azure agree on success, and the run
\* exited accordingly; likewise for the container-delete call and the delete
\* functions; and for every answer to a probe of the container, AWS'
\* bucket_exists and Azure's container_exists report present for the same
\* answers and absent for the same answers.
C15_ProvidersAgree ==
    \A c \in FinishedRuns : \A i \in DOMAIN c.calls :
      LET op == c.calls[i].op
          r == c.calls[i].resp
      IN r \in CommonAnswers
         => /\ op \in ContainerCreateOps
                 => /\ Succeeds(AwsCreateOutcome(r)) = Succeeds(GcpCreateOutcome(r))
                    /\ Succeeds(GcpCreateOutcome(r)) = Succeeds(AzCreateOutcome(r))
                    /\ (c.exit = 0) = Succeeds(AwsCreateOutcome(r))
            /\ op \in ContainerDeleteOps
                 => /\ Succeeds(AwsDeleteOutcome(r)) = Succeeds(GcpDeleteOutcome(r))
                    /\ Succeeds(GcpDeleteOutcome(r)) = Succeeds(AzDeleteOutcome(r))
                    /\ (c.exit = 0) = Succeeds(AwsDeleteOutcome(r))
            /\ op \in {"head_bucket", "container_exists"}
                 => /\ (bucket_exists(r) = "True") = container_exists(r)
                    /\ (bucket_exists(r) = "False") = ~container_exists(r)

\* C16: for a container name that is empty once lowered and stripped of its
\* dashes, no account name is derived and no provider call is made, and the
\* run ends Failed with a status other than 0.
C16_InvalidNameRejected ==
    \A c \in AllRuns :
      ( /\ prov = "azure"
        /\ c.action \in {"create", "delete", "check", "list-containers"}
        /\ LowerNoDash(c.name) = <<>> )
      => /\ c.acct = NoAccount
         /\ c.calls = <<>>
         /\ c \in FinishedRuns => c.outcome = "Failed" /\ c.exit # 0

\* Errors that a repetition of the call may not meet again.
TransientErrors == {"error", "transport"}

\* C18: a create run that began with the container and its account present
\* and had no company, and whose only injected errors are transient errors
\* of its probes, makes no mutating call, and ends AlreadyExisted with
\* status 0.
C18_PresentCreateNeverMutates ==
    \A c \in AllRuns :
      ( /\ c.action = "create"
        /\ c.pre /\ (prov = "azure" => c.preParent)
        /\ ~c.others
        /\ \A i \in DOMAIN c.calls :
             c.calls[i].inj => /\ c.calls[i].op \in ProbeOps
                               /\ c.calls[i].resp \in TransientErrors )
      => /\ CallsOf(c, MutatingOps) = {}
         /\ c \in FinishedRuns => c.outcome = "AlreadyExisted" /\ c.exit = 0

\* The calls that list a container's objects and that delete them.
ListObjectsOps == {"list_objects", "list_blobs"}
DeleteObjectsOps == {"delete_objects", "delete_blobs"}

\* A delete run whose probe found the container.
DeleteOfPresent(c) ==
    /\ c.action = "delete" /\ c.calls # <<>>
    /\ c.calls[1].op \in ProbeOps /\ c.calls[1].resp = "ok"

\* The container-delete call at index i of the run c comes after the probe,
\* the listing of the objects and, when the listing returned objects, their
\* deletion.
EmptiedBefore(c, i) ==
    /\ i \in {3, 4}
    /\ c.calls[1].op \in ProbeOps /\ c.calls[1].resp = "ok"
    /\ c.calls[2].op \in ListObjectsOps
    /\ i = 4 => /\ c.calls[3].op \in DeleteObjectsOps
                /\ c.calls[2].resp = "ok" /\ c.blobs > 0

\* C19, as claimed: in every provider the container-delete call of a delete
\* run comes after the probe and an attempt to empty the container in the
\* same run.
C19_AllEmptyBeforeDelete ==
    \A c \in AllRuns :
      DeleteOfPresent(c)
      => \A i \in CallsOf(c, ContainerDeleteOps) : EmptiedBefore(c, i)

\* C19, amended: on AWS and GCP the container-delete call of a delete run
\* comes after the probe, the listing of the objects and, when the listing
\* returned any, their deletion, and a run alone and without injected errors
\* makes exactly these calls and ends Deleted; on Azure a delete run calls
\* the probe and then the container delete, and never lists or deletes the
\* container's objects.
C19_EmptyBeforeDelete ==
    \A c \in AllRuns :
      DeleteOfPresent(c)
      => /\ prov \in {"aws", "gcp"}
              => /\ \A i \in CallsOf(c, ContainerDeleteOps) : EmptiedBefore(c, i)
                 /\ \A i \in CallsOf(c, DeleteObjectsOps) :
                      /\ i = 3 /\ c.calls[2].op \in ListObjectsOps
                      /\ c.calls[2].resp = "ok" /\ c.blobs > 0
                 /\ (c \in FinishedRuns /\ Clean(c) /\ ~c.others)
                      => /\ Len(c.calls) = (IF c.blobs > 0 THEN 4 ELSE 3)
                         /\ c.calls[2].op \in ListObjectsOps
                         /\ c.blobs > 0 => c.calls[3].op \in DeleteObjectsOps
                         /\ c.calls[Len(c.calls)].op \in ContainerDeleteOps
                         /\ c.outcome = "Deleted" /\ c.exit = 0
         /\ prov = "azure"
              => /\ CallsOf(c, CleanupOps) = {}
                 /\ \A i \in CallsOf(c, ContainerDeleteOps) : i = 2
                 /\ (c \in FinishedRuns /\ Clean(c) /\ ~c.others)
                      => /\ OpsOf(c) = <<"container_exists", "delete_container">>
                         /\ c.outcome = "Deleted" /\ c.exit = 0

\* C19, witness: a delete run of a bucket with objects, alone and without
\* injected errors, has made its four calls and ended Deleted.
C19_Witness ==
    \E c \in FinishedRuns :
      /\ DeleteOfPresent(c) /\ Clean(c) /\ ~c.others
      /\ Len(c.calls) = 4 /\ c.blobs > 0
      /\ c.outcome = "Deleted"

\* The provider calls of every kind.
AllOps == ProbeOps \cup MutatingOps \cup DescribeOps \cup ListOps

\* In every run, each provider call is made at most once and the calls are
\* at most four; a run that has exited has an outcome and a status 0 or 1.
RunsAreBounded ==
    /\ \A c \in AllRuns :
         /\ Len(c.calls) <= 4
         /\ \A i \in DOMAIN c.calls : c.calls[i].op \in AllOps
         /\ \A i, j \in DOMAIN c.calls : c.calls[i].op = c.calls[j].op => i = j
         /\ Cardinality(CallsOf(c, ContainerCreateOps)) <= 1
         /\ Cardinality(CallsOf(c, ParentCreateOps)) <= 1
         /\ Cardinality(CallsOf(c, ContainerDeleteOps)) <= 1
    /\ \A c \in FinishedRuns :
         /\ c.outcome \in Outcomes
         /\ c.exit \in {0, 1}
         /\ (c.exit = 0 /\ c.action \notin ListActions) => Succeeds(c.outcome)

\* C20: when every provider call returns, every run that main has started
\* exits, with a success or a failure outcome; and no run repeats a call: the
\* container-create call, the account-create call and the container-delete
\* call are each made at most once in a run, whatever the provider answers.
C20_EveryCycleTerminates ==
    /\ []RunsAreBounded
    /\ \A p \in Procs : InProgress(p) ~> (pc[p] = "done")

\* C20, witness: a run whose container-create call was answered with an
\* error has exited Failed after that one call.
C20_Witness ==
    \E c \in FinishedRuns :
      /\ c.outcome = "Failed"
      /\ \E i \in CallsOf(c, ContainerCreateOps) :
           c.calls[i].inj /\ i = Len(c.calls)

\* The backend's answer to the call op on a container (and its account) in
\* the state st, when nothing else is at work on them.
BackendAnswer(op, st) ==
    CASE op \in {"head_bucket", "get_bucket", "list_objects", "list_blobs",
                 "delete_objects"} ->
           IF st.present THEN "ok" ELSE "notfound"
      [] op = "delete_blobs" ->
           IF st.present /\ st.objects > 0 THEN "ok" ELSE "notfound"
      [] op = "create_bucket" -> IF st.present THEN "conflict" ELSE "ok"
      [] op = "delete_bucket" ->
           IF ~st.present THEN "notfound"
           ELSE IF st.objects > 0 THEN "notempty" ELSE "ok"
      [] op = "get_properties" -> IF st.account THEN "ok" ELSE "notfound"
      [] op = "begin_create" -> "ok"
      [] op \in {"container_exists", "delete_container"} ->
           IF ~st.account THEN "noaccount"
           ELSE IF st.present THEN "ok" ELSE "notfound"
      [] op = "create_container" ->
           IF ~st.account THEN "noaccount"
           ELSE IF st.present THEN "conflict" ELSE "ok"
      [] OTHER -> "ok"

\* The state of the container after the call op answered resp.
BackendEffect(op, resp, st) ==
    CASE resp = "ok" /\ op \in ContainerCreateOps -> [st EXCEPT !.present = TRUE]
      [] resp = "ok" /\ op \in ContainerDeleteOps -> [st EXCEPT !.present = FALSE]
      [] resp = "ok" /\ op \in DeleteObjectsOps -> [st EXCEPT !.objects = 0]
      [] resp = "ok" /\ op \in ParentCreateOps -> [st EXCEPT !.account = TRUE]
      [] OTHER -> st

\* The state of the run c's container before its call i, had the run been
\* alone: what the run found as it began, changed by its own calls.
RECURSIVE AloneBefore(_, _)
AloneBefore(c, i) ==
    IF i = 1 THEN c.own
    ELSE BackendEffect(c.calls[i - 1].op, c.calls[i - 1].resp, AloneBefore(c, i - 1))

\* Every answer the run c got, the injected errors aside, is the answer it
\* would have got alone.
AnsweredAsAlone(c) ==
    \A i \in DOMAIN c.calls :
      ~c.calls[i].inj
      => c.calls[i].resp = BackendAnswer(c.calls[i].op, AloneBefore(c, i))

\* The outcome of a run that is alone and meets no error.
AloneOutcome(c) ==
    CASE c.action = "create" /\ c.own.present -> "AlreadyExisted"
      [] c.action = "create" /\ ~c.own.present -> "Created"
      [] c.action = "delete" /\ c.own.present -> "Deleted"
      [] OTHER -> "AlreadyAbsent"

\* The run of caller p, when p has begun one.
TheRun(p) == IF pc[p] # "idle" THEN cur[p] ELSE hist[p][1]

\* Each caller has begun at most one run, a create or a delete, and the two
\* callers' runs are for different names.
DifferentNames ==
    /\ \A p \in Procs :
         /\ Begun(p) <= 1
         /\ Begun(p) = 1 => TheRun(p).action \in {"create", "delete"}
    /\ (\A p \in Procs : Begun(p) = 1) => TheRun("p1").name # TheRun("p2").name

\* The runs for different names leave each other's answers, outcome and
\* container as they would be alone.
EachAsAlone ==
    DifferentNames
    => \A p \in {q \in Procs : Begun(q) = 1} :
         LET c == TheRun(p) IN
           /\ AnsweredAsAlone(c)
           /\ (c \in FinishedRuns /\ Clean(c)) => c.outcome = AloneOutcome(c)
           /\ c \in FinishedRuns
                => Own(c.name, c.acct) = AloneBefore(c, Len(c.calls) + 1)

\* A step in which caller p made a provider call changes no bucket, object
\* count or container of another name, and creates no account but the
\* run's; a step without a provider call leaves the backend as it is.
OnlyOwnContainer ==
    /\ \A p \in Procs :
         Len(cur'[p].calls) > Len(cur[p].calls)
         => /\ \A n \in LogicalNames \ {cur[p].name} :
                 /\ (n \in buckets') = (n \in buckets)
                 /\ objs'[n] = objs[n]
                 /\ {a \in accounts' : <<a, n>> \in containers'}
                      = {a \in accounts : <<a, n>> \in containers}
            /\ accounts' \ accounts \subseteq {cur[p].acct}
            /\ accounts \subseteq accounts'
    /\ (\A p \in Procs : Len(cur'[p].calls) <= Len(cur[p].calls))
         => backend' = backend

\* C17: runs for different names do not interfere.  When the two callers
\* run one create or delete each, for different names and interleaved in any
\* way, every answer a run gets (injected errors aside) is the answer it
\* would get alone, a run without injected errors ends with the outcome it
\* would have alone, and its container is, once it has ended, in the state
\* its own calls left it in; and no step of a run creates or deletes a
\* container, or changes the objects, of another name.
C17_DifferentNamesDoNotInterfere ==
    /\ []EachAsAlone
    /\ [][OnlyOwnContainer]_vars

\* C17, witness: a create run and a delete run for different names, each
\* with the other at work meanwhile, have ended Created and Deleted.
C17_Witness ==
    /\ \A p \in Procs : Begun(p) = 1 /\ pc[p] \in {"idle", "done"}
    /\ DifferentNames
    /\ \E p \in Procs : \E q \in Procs \ {p} :
         /\ TheRun(p).action = "create" /\ TheRun(p).outcome = "Created"
         /\ TheRun(q).action = "delete" /\ TheRun(q).outcome = "Deleted"
         /\ TheRun(p).others /\ TheRun(q).others

\* Caller p's run has just exited and no other caller has begun a run.
ReturnedAlone(p) ==
    /\ pc[p] = "done"
    /\ \A q \in Procs \ {p} : Begun(q) = 0

\* C21: with no other caller, when a delete run exits with status 0 the
\* container of its name is absent from the backend, and a delete run that
\* ends AlreadyAbsent began with the container absent.
C21_DeleteSuccessMeansAbsent ==
    \A p \in Procs :
      ( ReturnedAlone(p) /\ cur[p].action = "delete" /\ cur[p].exit = 0 )
      => /\ ~Present(cur[p].name)
         /\ cur[p].outcome = "AlreadyAbsent" => ~cur[p].pre

\* C22: with no other caller, when a create run exits with status 0 the
\* container of its name exists in the backend where the caller reaches it:
\* the bucket of that name, or the container of that name in the run's
\* storage account, which exists too.
C22_CreateSuccessMeansPresent ==
    \A p \in Procs :
      ( ReturnedAlone(p) /\ cur[p].action = "create" /\ cur[p].exit = 0 )
      => IF prov = "azure"
         THEN /\ cur[p].acct \in accounts
              /\ <<cur[p].acct, cur[p].name>> \in containers
         ELSE cur[p].name \in buckets

\* The actions that inspect and enumerate.
ReadOnlyActions == {"check"} \cup ListActions

\* No check or list run has made a call that creates or deletes a container,
\* an account or objects, and no delete run a call on the account.
NoMutatingCall ==
    \A c \in AllRuns :
      /\ c.action \in ReadOnlyActions => CallsOf(c, MutatingOps) = {}
      /\ c.action = "delete" => CallsOf(c, ParentCreateOps) = {}

\* A step in which a check or list run made a provider call leaves the
\* buckets, objects, accounts and containers as they were; a step in which a
\* delete run made a provider call leaves the accounts as they were.
ReadsLeaveBackend ==
    \A p \in Procs :
      Len(cur'[p].calls) > Len(cur[p].calls)
      => /\ cur[p].action \in ReadOnlyActions => backend' = backend
         /\ cur[p].action = "delete" => accounts' = accounts

\* C23: check and list runs are read-only, whatever the backend holds and
\* whatever the provider answers: they make no create, delete or
\* object-delete call and none of their steps changes the accounts, the
\* containers or the objects; and no step of a delete run removes a storage
\* account.
C23_CheckAndListAreReadOnly ==
    /\ []NoMutatingCall
    /\ [][ReadsLeaveBackend]_vars

\* C23, witness: a check run of a container that exists has made its calls,
\* one of them answered with an error, and exited.
C23_Witness ==
    \E c \in FinishedRuns :
      /\ c.action = "check" /\ c.pre
      /\ Len(c.calls) >= 2 /\ ~Clean(c)

====
